---- MODULE Spec2Model ----
(***************************************************************************)
(* Account subsystem of nft-marketplace-backend: the User model (Mongoose, *)
(* collection "users"), the legacy container document with its embedded    *)
(* users array (raw driver, same database "nft", same collection "users"), *)
(* the repository, validator, username generator, migration module and the *)
(* register / login / delete handlers.                                     *)
(*                                                                         *)
(* Strings are sequences of one-character strings, so that toLowerCase,    *)
(* trim, replace, slice and the regular expressions are computed.  An      *)
(* absent (undefined) field of a request body and the empty string are     *)
(* both << >>: the code tests them with !x, which is true of both.  An     *)
(* absent field of a legacy entry is Undefined, because a query on it      *)
(* differs from a query on the empty string.                               *)
(* Time is in milliseconds, counted from an instant that is a multiple of  *)
(* 10^6 ms, so that the last six digits of Date.now() are those of now.    *)
(***************************************************************************)
EXTENDS Integers, Sequences, FiniteSets, TLC

VARIABLES
    userDocs,   \* documents of collection "users" written through the User model
    usersDoc,   \* the legacy container document of collection "users"
    now,        \* Date.now()
    ticks,      \* number of clock advances so far
    last,       \* the last handler call: its request and its response
    procs       \* the handler calls in progress: their position and locals

vars == <<userDocs, usersDoc, now, ticks, last, procs>>

----------------------------------------------------------------------------
(* Bounds *)

MaxTicks == 2
MaxLegacy == 2
MaxMigrate == 3

----------------------------------------------------------------------------
(* Program constants *)

MAX_LOGIN_ATTEMPTS == 4
LOCK_TIME == 5 * 60 * 1000
\* variant: the suffix loop is given two more attempts
maxAttemptsMore == 10 + 2
maxAttempts == 10
SuffixLen == 4
CleanMaxLen == 20
CleanMinLen == 3
UsernameMinLen == 3
UsernameMaxLen == 30
PasswordMinLen == 4
ValidatorPasswordMinLen == 6
RoutePasswordMinLen == 8
TimestampDigits == 6

NoLock == -1          \* lockUntil is not set on the document

\* the value of a field a legacy entry does not have: no string
Undefined == <<"undefined">>

\* !x on a field of a legacy entry
Falsy(x) == x = << >> \/ x = Undefined

----------------------------------------------------------------------------
(* Characters and strings *)

UpperSeq == <<"A","B","C","D","E","F","G","H","I","J","K","L","M",
              "N","O","P","Q","R","S","T","U","V","W","X","Y","Z">>
LowerSeq == <<"a","b","c","d","e","f","g","h","i","j","k","l","m",
              "n","o","p","q","r","s","t","u","v","w","x","y","z">>
DigitSeq == <<"0","1","2","3","4","5","6","7","8","9">>

Range(s) == {s[i] : i \in DOMAIN s}

Uppers == Range(UpperSeq)
Lowers == Range(LowerSeq)
Digits == Range(DigitSeq)
Letters == Uppers \cup Lowers
Whitespace == {" "}

LowerChar(c) ==
    IF c \in Uppers
    THEN LowerSeq[CHOOSE i \in DOMAIN UpperSeq : UpperSeq[i] = c]
    ELSE c

\* String.prototype.toLowerCase
toLowerCase(s) == [i \in DOMAIN s |-> LowerChar(s[i])]

\* String.prototype.slice(0, n)
SliceTo(s, n) == SubSeq(s, 1, IF Len(s) < n THEN Len(s) ELSE n)

\* String.prototype.trim (also Mongoose's trim setter)
RECURSIVE TrimLeft(_)
TrimLeft(s) ==
    IF s # << >> /\ Head(s) \in Whitespace THEN TrimLeft(Tail(s)) ELSE s

RECURSIVE TrimRight(_)
TrimRight(s) ==
    IF s # << >> /\ s[Len(s)] \in Whitespace
    THEN TrimRight(SubSeq(s, 1, Len(s) - 1))
    ELSE s

trim(s) == TrimRight(TrimLeft(s))

IsCleanChar(c) == c \in Lowers \cup Digits

\* /^[^\s@]+@[^\s@]+\.[^\s@]+$/
emailRegex(s) ==
    \E i \in DOMAIN s :
        /\ s[i] = "@"
        /\ i >= 2
        /\ \A k \in DOMAIN s : k # i => s[k] \notin Whitespace \cup {"@"}
        /\ \E j \in (i + 2)..(Len(s) - 1) : s[j] = "."

\* /\S+@\S+\.\S+/  (not anchored)
validatorEmailRegex(s) ==
    \E i \in DOMAIN s :
        /\ s[i] = "@"
        /\ i >= 2 /\ s[i - 1] \notin Whitespace
        /\ \E j \in (i + 2)..(Len(s) - 1) :
              /\ s[j] = "."
              /\ \A k \in (i + 1)..(j + 1) : s[k] \notin Whitespace

\* /^(?=.*[A-Za-z])(?=.*\d)[A-Za-z\d]{8,}$/
passwordRegex(s) ==
    /\ Len(s) >= RoutePasswordMinLen
    /\ \A i \in DOMAIN s : s[i] \in Letters \cup Digits
    /\ \E i \in DOMAIN s : s[i] \in Letters
    /\ \E i \in DOMAIN s : s[i] \in Digits

\* Date.now().toString().slice(-6)
RECURSIVE LastDigits(_, _)
LastDigits(n, k) ==
    IF k = 0 THEN << >>
    ELSE Append(LastDigits(n \div 10, k - 1), DigitSeq[(n % 10) + 1])

----------------------------------------------------------------------------
(* bcrypt: the digest of a password is not the password; compare accepts   *)
(* exactly the digest of the presented password.                           *)

BcryptPrefix == <<"$","2","b","$">>
bcryptHash(p) == BcryptPrefix \o p
bcryptCompare(p, digest) == digest = bcryptHash(p)

----------------------------------------------------------------------------
(* models/User.js: the schema's setters, defaults, validators and the      *)
(* unique indexes on username and email.                                   *)

\* trim: true on username
CastUsername(u) == trim(u)

\* trim: true, lowercase: true on email
CastEmail(e) == toLowerCase(trim(e))

\* new User(data): setters applied, defaults filled in
NewUser(data) ==
    [username      |-> CastUsername(data.username),
     email         |-> CastEmail(data.email),
     password      |-> data.password,
     isActivated   |-> data.isActivated,
     loginAttempts |-> 0,
     lockUntil     |-> NoLock]

\* the schema validators run by save(): TRUE when the document passes
SchemaValid(doc) ==
    /\ doc.username # << >>
    /\ Len(doc.username) >= UsernameMinLen
    /\ Len(doc.username) <= UsernameMaxLen
    /\ doc.email # << >>
    /\ emailRegex(doc.email)
    /\ doc.password # << >>
    /\ Len(doc.password) >= PasswordMinLen

\* variant: the index on email is not unique
DuplicateKeyUsernameOnly(docs, doc) ==
    \E d \in docs : d.username = doc.username

\* unique: true on username and on email: the insert or update of doc is
\* refused (E11000) when another document holds its username or its email
DuplicateKey(docs, doc) ==
    \E d \in docs : d.username = doc.username \/ d.email = doc.email

\* variant: the collection has no unique index
SaveNoIndex(docs, doc) ==
    IF ~SchemaValid(doc) THEN [code |-> "ValidationError", docs |-> docs]
    ELSE [code |-> "ok", docs |-> docs \cup {doc}]

\* newUser.save(): "ValidationError", "E11000" or "ok" with the new contents
Save(docs, doc) ==
    IF ~SchemaValid(doc) THEN [code |-> "ValidationError", docs |-> docs]
    ELSE IF DuplicateKey(docs, doc) THEN [code |-> "E11000", docs |-> docs]
    ELSE [code |-> "ok", docs |-> docs \cup {doc}]

\* User.findOne({ username }): the filter is cast with the schema's setters
FindOneByUsername(docs, u) == {d \in docs : d.username = CastUsername(u)}

\* User.findOne({ email })
FindOneByEmail(docs, e) == {d \in docs : d.email = CastEmail(e)}

\* User.findOne({ $or: [{ email }, { username }] })
FindOneByEmailOrUsername(docs, e, u) ==
    {d \in docs : d.email = CastEmail(e) \/ d.username = CastUsername(u)}

\* variant: the comparison of the virtual isLocked is reversed
isLockedReversed(doc, t) == doc.lockUntil # NoLock /\ doc.lockUntil < t

\* A criterion whose value is undefined is sent as null, and null matches a
\* document without the field: the container document, stored in the same
\* collection "users", has neither username nor email.
MatchesContainer(ud, e, u) == ud.exists /\ (e = Undefined \/ u = Undefined)

\* variant: a lock, once set, never elapses
isLockedForever(doc, t) == doc.lockUntil # NoLock

\* virtual isLocked
isLocked(doc, t) == doc.lockUntil # NoLock /\ doc.lockUntil > t

\* variant: the threshold is tested on the count before the increment
incrementLoginAttemptsLate(doc, t) ==
    IF doc.lockUntil # NoLock /\ doc.lockUntil < t
    THEN [doc EXCEPT !.loginAttempts = 1, !.lockUntil = NoLock]
    ELSE IF doc.loginAttempts >= MAX_LOGIN_ATTEMPTS
            /\ ~(doc.lockUntil # NoLock /\ doc.lockUntil > t)
         THEN [doc EXCEPT !.loginAttempts = @ + 1, !.lockUntil = t + LOCK_TIME]
         ELSE [doc EXCEPT !.loginAttempts = @ + 1]

\* variant: an expired lock does not restart the count
incrementLoginAttemptsNoExpiry(doc, t) ==
    IF doc.loginAttempts + 1 >= MAX_LOGIN_ATTEMPTS
       /\ ~(doc.lockUntil # NoLock /\ doc.lockUntil > t)
    THEN [doc EXCEPT !.loginAttempts = @ + 1, !.lockUntil = t + LOCK_TIME]
    ELSE [doc EXCEPT !.loginAttempts = @ + 1]

\* methods.incrementLoginAttempts: the document as updateOne leaves it
incrementLoginAttempts(doc, t) ==
    IF doc.lockUntil # NoLock /\ doc.lockUntil < t
    THEN [doc EXCEPT !.loginAttempts = 1, !.lockUntil = NoLock]
    ELSE IF doc.loginAttempts + 1 >= MAX_LOGIN_ATTEMPTS /\ ~isLocked(doc, t)
         THEN [doc EXCEPT !.loginAttempts = @ + 1, !.lockUntil = t + LOCK_TIME]
         ELSE [doc EXCEPT !.loginAttempts = @ + 1]

\* variant: the reset leaves lockUntil in place
resetLoginAttemptsKeepLock(doc) == [doc EXCEPT !.loginAttempts = 0]

\* methods.resetLoginAttempts
resetLoginAttempts(doc) ==
    [doc EXCEPT !.loginAttempts = 0, !.lockUntil = NoLock]

\* incrementLoginAttempts in its two parts.  The update is composed from
\* the document as it was loaded: $set loginAttempts (-1 for none), $inc
\* loginAttempts, and lockUntil unset, set or left alone.
updates(doc, t) ==
    IF doc.lockUntil # NoLock /\ doc.lockUntil < t
    THEN [set |-> 1, inc |-> 0, lock |-> "unset", until |-> NoLock]
    ELSE IF doc.loginAttempts + 1 >= MAX_LOGIN_ATTEMPTS /\ ~isLocked(doc, t)
         THEN [set |-> -1, inc |-> 1, lock |-> "set", until |-> t + LOCK_TIME]
         ELSE [set |-> -1, inc |-> 1, lock |-> "keep", until |-> NoLock]

\* this.updateOne(updates): the store applies it to the document as stored
updateOne(stored, upd) ==
    [stored EXCEPT
        !.loginAttempts = IF upd.set >= 0 THEN upd.set ELSE @ + upd.inc,
        !.lockUntil = IF upd.lock = "unset" THEN NoLock
                      ELSE IF upd.lock = "set" THEN upd.until ELSE @]

----------------------------------------------------------------------------
(* The legacy container: usersCollection.findOne({}) returns the first     *)
(* document of collection "users" in natural order, which is the container *)
(* whenever it exists (it predates every User document).                   *)

\* variant: the users array is read under a name the container lacks
LegacyUsersIgnored(ud) == << >>

\* usersDoc && usersDoc.users ? usersDoc.users : (nothing to scan)
LegacyUsers(ud) == IF ud.exists /\ ud.hasUsers THEN ud.users ELSE << >>

HasLegacyUsers(ud) == ud.exists /\ ud.hasUsers

\* Array.prototype.find / findIndex, given the positions whose element
\* matches: the first of them, 0 when there is none
FindIndex(matching) ==
    IF matching = {} THEN 0
    ELSE CHOOSE i \in matching : \A j \in matching : i <= j

\* variant: splice(i) without a count removes every element from i on
SpliceRest(list, i) == SubSeq(list, 1, i - 1)

\* Array.prototype.splice(i, 1)
Splice(list, i) == SubSeq(list, 1, i - 1) \o SubSeq(list, i + 1, Len(list))

----------------------------------------------------------------------------
(* services/modules/userValidator.js *)

checkLegacyStructure(ud, email, username) ==
    \E i \in DOMAIN LegacyUsers(ud) :
        IF username # << >>
        THEN \/ LegacyUsers(ud)[i].email = email
             \/ LegacyUsers(ud)[i].username = username
        ELSE LegacyUsers(ud)[i].email = email

userExists(docs, ud, email, username) ==
    LET found == IF username # << >>
                 THEN FindOneByEmailOrUsername(docs, email, username)
                 ELSE FindOneByEmail(docs, email)
    IN  found # {} \/ checkLegacyStructure(ud, email, username)

isUsernameTaken(docs, ud, username) ==
    \/ FindOneByUsername(docs, username) # {}
    \/ \E i \in DOMAIN LegacyUsers(ud) : LegacyUsers(ud)[i].username = username

MsgUsername == "Username must be at least 3 characters long"
MsgEmail == "Valid email address is required"
MsgPassword == "Password must be at least 6 characters long"
MsgUsed == "This email is already used!"

\* validateUserData: the list of error messages (empty when valid)
validateUserData(docs, ud, username, email, password) ==
    (IF username = << >> \/ Len(username) < CleanMinLen
        THEN <<MsgUsername>> ELSE << >>)
    \o (IF email = << >> \/ ~validatorEmailRegex(email)
        THEN <<MsgEmail>> ELSE << >>)
    \o (IF password = << >> \/ Len(password) < ValidatorPasswordMinLen
        THEN <<MsgPassword>> ELSE << >>)
    \o (IF username # << >> /\ email # << >>
           /\ userExists(docs, ud, email, username)
        THEN <<MsgUsed>> ELSE << >>)

----------------------------------------------------------------------------
(* services/modules/usernameGenerator.js: UsernameGenerator *)

cleanUsername(username) ==
    SliceTo(SelectSeq(toLowerCase(username), IsCleanChar), CleanMaxLen)

\* generateWithSuffix: draws[k] is the k-th value nanoid(4) returns
RECURSIVE SuffixLoop(_, _, _, _, _, _)
SuffixLoop(docs, ud, baseUsername, draws, t, attempts) ==
    IF attempts < maxAttempts
    THEN LET candidateUsername == baseUsername \o <<"_">> \o draws[attempts + 1]
         IN  IF ~isUsernameTaken(docs, ud, candidateUsername)
             THEN candidateUsername
             ELSE SuffixLoop(docs, ud, baseUsername, draws, t, attempts + 1)
    ELSE baseUsername \o <<"_">> \o LastDigits(t, TimestampDigits)

generateWithSuffix(docs, ud, baseUsername, draws, t) ==
    SuffixLoop(docs, ud, baseUsername, draws, t, 0)

MsgSeed == "Username must be at least 3 characters long after cleaning"

\* generateUniqueUsername: [ok, username]; ok = FALSE when it throws
generateUniqueUsername(docs, ud, desiredUsername, draws, t) ==
    LET clean == cleanUsername(desiredUsername)
    IN  IF Len(clean) < CleanMinLen
        THEN [ok |-> FALSE, username |-> << >>]
        ELSE IF ~isUsernameTaken(docs, ud, clean)
        THEN [ok |-> TRUE, username |-> clean]
        ELSE [ok |-> TRUE,
              username |-> generateWithSuffix(docs, ud, clean, draws, t)]

\* the number of calls of UserValidator.isUsernameTaken the while loop of
\* generateWithSuffix makes from attempt number attempts on
RECURSIVE SuffixChecks(_, _, _, _, _)
SuffixChecks(docs, ud, baseUsername, draws, attempts) ==
    IF attempts < maxAttempts
    THEN IF ~isUsernameTaken(docs, ud,
                             baseUsername \o <<"_">> \o draws[attempts + 1])
         THEN 1
         ELSE 1 + SuffixChecks(docs, ud, baseUsername, draws, attempts + 1)
    ELSE 0

\* the number of calls of UserValidator.isUsernameTaken one call of
\* generateUniqueUsername makes
existenceChecks(docs, ud, desiredUsername, draws) ==
    LET clean == cleanUsername(desiredUsername)
    IN  IF Len(clean) < CleanMinLen THEN 0
        ELSE IF ~isUsernameTaken(docs, ud, clean) THEN 1
        ELSE 1 + SuffixChecks(docs, ud, clean, draws, 0)

----------------------------------------------------------------------------
(* services/modules/usernameGenerator.js: UserRepository *)

\* variant: the email criterion is not compared
findInLegacyStructureByUsername(ud, username, email) ==
    LET Match(user) == username # << >> /\ user.username = username
    IN  FindIndex({i \in DOMAIN LegacyUsers(ud) : Match(LegacyUsers(ud)[i])})

\* findInLegacyStructure(criteria): index of the first match, 0 when none
findInLegacyStructure(ud, username, email) ==
    LET Match(user) == \/ username # << >> /\ user.username = username
                       \/ email # << >> /\ user.email = email
    IN  FindIndex({i \in DOMAIN LegacyUsers(ud) : Match(LegacyUsers(ud)[i])})

\* a lookup result: the stored record and the shape it was found in
Found(shape, rec) == [shape |-> shape, rec |-> rec]
NotFound == [shape |-> "none", rec |-> << >>]

\* variant: the legacy list is scanned first
findByUsernameLegacyFirst(docs, ud, username) ==
    IF findInLegacyStructure(ud, username, << >>) # 0
    THEN Found("legacy",
               LegacyUsers(ud)[findInLegacyStructure(ud, username, << >>)])
    ELSE IF FindOneByUsername(docs, username) # {}
    THEN Found("doc", CHOOSE d \in FindOneByUsername(docs, username) : TRUE)
    ELSE NotFound

findByUsername(docs, ud, username) ==
    IF FindOneByUsername(docs, username) # {}
    THEN Found("doc", CHOOSE d \in FindOneByUsername(docs, username) : TRUE)
    ELSE IF findInLegacyStructure(ud, username, << >>) # 0
    THEN Found("legacy",
               LegacyUsers(ud)[findInLegacyStructure(ud, username, << >>)])
    ELSE NotFound

findByEmail(docs, ud, email) ==
    IF FindOneByEmail(docs, email) # {}
    THEN Found("doc", CHOOSE d \in FindOneByEmail(docs, email) : TRUE)
    ELSE IF findInLegacyStructure(ud, << >>, email) # 0
    THEN Found("legacy",
               LegacyUsers(ud)[findInLegacyStructure(ud, << >>, email)])
    ELSE NotFound

\* findByEmailForLogin: the same lookup, with loginAttempts and lockUntil
\* selected on a User document
findByEmailForLogin(docs, ud, email) == findByEmail(docs, ud, email)

\* create(userData): [code, docs, user]
MsgExists == "User with this email or username already exists"
MsgCreate == "Error creating user"

\* variant: the document is built and returned but never saved
createNoSave(docs, userData) ==
    [code |-> "ok", docs |-> docs, user |-> NewUser(userData)]

create(docs, userData) ==
    LET saved == Save(docs, NewUser(userData))
    IN  [code |-> saved.code, docs |-> saved.docs, user |-> NewUser(userData)]

\* updateByUsername(username, updateData): findOneAndUpdate casts the
\* update with the schema's setters and runs no validators; the unique
\* indexes still refuse a username or email another document holds
ApplyPatch(doc, patch) ==
    [doc EXCEPT
        !.username = IF "username" \in patch.fields
                     THEN CastUsername(patch.username) ELSE @,
        !.email = IF "email" \in patch.fields
                  THEN CastEmail(patch.email) ELSE @,
        !.isActivated = IF "isActivated" \in patch.fields
                        THEN patch.isActivated ELSE @]

\* variant: findOneAndUpdate is given upsert: true
updateByUsernameUpsert(docs, username, patch) ==
    IF FindOneByUsername(docs, username) = {}
    THEN LET made == ApplyPatch([username |-> CastUsername(username),
                                 email |-> << >>, password |-> << >>,
                                 isActivated |-> FALSE, loginAttempts |-> 0,
                                 lockUntil |-> NoLock], patch)
         IN  [code |-> "ok", docs |-> docs \cup {made},
              user |-> Found("doc", made)]
    ELSE LET doc == CHOOSE d \in FindOneByUsername(docs, username) : TRUE
             upd == ApplyPatch(doc, patch)
         IN  IF DuplicateKey(docs \ {doc}, upd)
             THEN [code |-> "E11000", docs |-> docs, user |-> NotFound]
             ELSE [code |-> "ok", docs |-> (docs \ {doc}) \cup {upd},
                   user |-> Found("doc", upd)]

updateByUsername(docs, username, patch) ==
    IF FindOneByUsername(docs, username) = {}
    THEN [code |-> "null", docs |-> docs, user |-> NotFound]
    ELSE LET doc == CHOOSE d \in FindOneByUsername(docs, username) : TRUE
             upd == ApplyPatch(doc, patch)
         IN  IF DuplicateKey(docs \ {doc}, upd)
             THEN [code |-> "E11000", docs |-> docs, user |-> NotFound]
             ELSE [code |-> "ok", docs |-> (docs \ {doc}) \cup {upd},
                   user |-> Found("doc", upd)]

\* variant: the index is tested for truthiness, so "no match" (-1) removes
\* the last element
deleteFromLegacyStructureTruthy(ud, username) ==
    LET Match(user) == user.username = username
        userIndex ==
            FindIndex({i \in DOMAIN LegacyUsers(ud) : Match(LegacyUsers(ud)[i])})
    IN  IF HasLegacyUsers(ud) /\ userIndex # 0
        THEN [user |-> Found("legacy", LegacyUsers(ud)[userIndex]),
              ud |-> [ud EXCEPT !.users = Splice(@, userIndex)]]
        ELSE IF HasLegacyUsers(ud) /\ ud.users # << >>
        THEN [user |-> NotFound,
              ud |-> [ud EXCEPT !.users = Splice(@, Len(ud.users))]]
        ELSE [user |-> NotFound, ud |-> ud]

\* deleteFromLegacyStructure(username): [user, ud]
deleteFromLegacyStructure(ud, username) ==
    LET Match(user) == user.username = username
        userIndex ==
            FindIndex({i \in DOMAIN LegacyUsers(ud) : Match(LegacyUsers(ud)[i])})
    IN  IF HasLegacyUsers(ud) /\ userIndex # 0
        THEN [user |-> Found("legacy", LegacyUsers(ud)[userIndex]),
              ud |-> [ud EXCEPT !.users = Splice(@, userIndex)]]
        ELSE [user |-> NotFound, ud |-> ud]

\* deleteByUsername(username): [user, docs, ud]
deleteByUsername(docs, ud, username) ==
    IF FindOneByUsername(docs, username) # {}
    THEN LET doc == CHOOSE d \in FindOneByUsername(docs, username) : TRUE
         IN  [user |-> Found("doc", doc), docs |-> docs \ {doc}, ud |-> ud]
    ELSE [user |-> deleteFromLegacyStructure(ud, username).user,
          docs |-> docs,
          ud |-> deleteFromLegacyStructure(ud, username).ud]

\* User.countDocuments({}): every document of collection "users", the
\* legacy container among them
countDocuments(docs, ud) == Cardinality(docs) + (IF ud.exists THEN 1 ELSE 0)

\* User.find({}): every document of collection "users"; the container,
\* when it exists, is among them and hydrates to a document that has none
\* of the schema's fields
Find(docs, ud) == [docs |-> docs, container |-> ud.exists]

\* findAll(): [shape, docs, container, legacy]: the User documents
\* returned, whether the hydrated container is among them, and the legacy
\* entries returned
findAll(docs, ud) ==
    LET mongooseUsers == Find(docs, ud)
        length == Cardinality(mongooseUsers.docs)
                      + (IF mongooseUsers.container THEN 1 ELSE 0)
    IN  IF length > 0
        THEN [shape |-> "doc", docs |-> mongooseUsers.docs,
              container |-> mongooseUsers.container, legacy |-> << >>]
        ELSE IF HasLegacyUsers(ud)
        THEN [shape |-> "legacy", docs |-> {}, container |-> FALSE,
              legacy |-> ud.users]
        ELSE [shape |-> "none", docs |-> {}, container |-> FALSE,
              legacy |-> << >>]

\* countAll()
countAll(docs, ud) ==
    LET mongooseCount == countDocuments(docs, ud)
        legacyCount == IF HasLegacyUsers(ud) THEN Len(ud.users) ELSE 0
    IN  mongooseCount + legacyCount

----------------------------------------------------------------------------
(* services/userService.js: UserService *)

\* variant: the document is created before the data is validated
addUserCreateFirst(docs, ud, username, email, password) ==
    LET errors == validateUserData(docs, ud, username, email, password)
        made == create(docs, [username |-> username, email |-> email,
                              password |-> password, isActivated |-> FALSE])
    IN  IF errors # << >>
        THEN [errors |-> errors, code |-> "invalid", docs |-> made.docs,
              user |-> made.user]
        ELSE [errors |-> << >>, code |-> made.code, docs |-> made.docs,
              user |-> made.user]

\* addUser(userData): [errors, code, docs, user]; errors is the list of
\* messages of the Error thrown on failed validation
addUser(docs, ud, username, email, password) ==
    LET errors == validateUserData(docs, ud, username, email, password)
        made == create(docs, [username |-> username, email |-> email,
                              password |-> password, isActivated |-> FALSE])
    IN  IF errors # << >>
        THEN [errors |-> errors, code |-> "invalid", docs |-> docs,
              user |-> made.user]
        ELSE [errors |-> << >>, code |-> made.code, docs |-> made.docs,
              user |-> made.user]

\* The four login helpers of UserService that the login handler calls.
findUserForLogin(docs, ud, email) == findByEmailForLogin(docs, ud, email)

isAccountLocked(user, t) ==
    user.shape = "doc" /\ isLocked(user.rec, t)

handleFailedLogin(docs, user, t) ==
    IF user.shape = "doc"
    THEN (docs \ {user.rec}) \cup {incrementLoginAttempts(user.rec, t)}
    ELSE docs

handleSuccessfulLogin(docs, user) ==
    IF user.shape = "doc"
    THEN (docs \ {user.rec}) \cup {resetLoginAttempts(user.rec)}
    ELSE docs

----------------------------------------------------------------------------
(* services/modules/index.js: UserMigration *)

MsgMissingFields == "Missing required fields (username or email)"

\* variant: no lookup of an existing document before the save
migrateUserNoCheck(docs, ud, userData) ==
    IF Falsy(userData.username) \/ Falsy(userData.email)
    THEN [action |-> "failed", error |-> MsgMissingFields, docs |-> docs]
    ELSE LET saved == Save(docs, NewUser(userData))
         IN  IF saved.code = "ok"
             THEN [action |-> "migrated", error |-> "", docs |-> saved.docs]
             ELSE [action |-> "failed", error |-> saved.code, docs |-> docs]

\* variant: a save the store refuses is reported as a migration
migrateUserSaveUnchecked(docs, ud, userData) ==
    IF FindOneByEmailOrUsername(docs, userData.email, userData.username) # {}
       \/ MatchesContainer(ud, userData.email, userData.username)
    THEN [action |-> "skipped", error |-> "", docs |-> docs]
    ELSE IF Falsy(userData.username) \/ Falsy(userData.email)
    THEN [action |-> "failed", error |-> MsgMissingFields, docs |-> docs]
    ELSE LET saved == Save(docs, NewUser(userData))
         IN  [action |-> "migrated", error |-> "",
              docs |-> IF saved.code = "ok" THEN saved.docs ELSE docs]

\* variant: an entry that matches an existing document replaces it
migrateUserOverwrite(docs, ud, userData) ==
    LET existing == FindOneByEmailOrUsername(docs, userData.email,
                                             userData.username)
    IN  IF existing # {} /\ ~Falsy(userData.username) /\ ~Falsy(userData.email)
        THEN [action |-> "skipped", error |-> "",
              docs |-> (docs \ existing) \cup {NewUser(userData)}]
        ELSE IF existing # {}
                \/ MatchesContainer(ud, userData.email, userData.username)
        THEN [action |-> "skipped", error |-> "", docs |-> docs]
        ELSE IF Falsy(userData.username) \/ Falsy(userData.email)
        THEN [action |-> "failed", error |-> MsgMissingFields, docs |-> docs]
        ELSE LET saved == Save(docs, NewUser(userData))
             IN  IF saved.code = "ok"
                 THEN [action |-> "migrated", error |-> "", docs |-> saved.docs]
                 ELSE [action |-> "failed", error |-> saved.code, docs |-> docs]

\* migrateUser(userData): [action, error, docs]; ud is the container, a
\* document of the collection User.findOne searches
migrateUser(docs, ud, userData) ==
    IF \/ FindOneByEmailOrUsername(docs, userData.email, userData.username) # {}
       \/ MatchesContainer(ud, userData.email, userData.username)
    THEN [action |-> "skipped", error |-> "", docs |-> docs]
    ELSE IF Falsy(userData.username) \/ Falsy(userData.email)
    THEN [action |-> "failed", error |-> MsgMissingFields, docs |-> docs]
    ELSE LET saved == Save(docs, NewUser(userData))
         IN  IF saved.code = "ok"
             THEN [action |-> "migrated", error |-> "", docs |-> saved.docs]
             ELSE [action |-> "failed", error |-> saved.code, docs |-> docs]

\* migrateUser between its awaits: the lookup of an existing document with
\* the check of the required fields, then the save.  [action, error]:
\* action "save" when the save comes next
migrateUserLookup(docs, ud, userData) ==
    IF \/ FindOneByEmailOrUsername(docs, userData.email, userData.username) # {}
       \/ MatchesContainer(ud, userData.email, userData.username)
    THEN [action |-> "skipped", error |-> ""]
    ELSE IF Falsy(userData.username) \/ Falsy(userData.email)
    THEN [action |-> "failed", error |-> MsgMissingFields]
    ELSE [action |-> "save", error |-> ""]

\* [action, error, docs]
migrateUserSave(docs, userData) ==
    LET saved == Save(docs, NewUser(userData))
    IN  IF saved.code = "ok"
        THEN [action |-> "migrated", error |-> "", docs |-> saved.docs]
        ELSE [action |-> "failed", error |-> saved.code, docs |-> docs]

\* the counters and the error list after the result of one entry
Tally(report, userData, result) ==
    [migrated |-> report.migrated
                     + (IF result.action = "migrated" THEN 1 ELSE 0),
     skipped  |-> report.skipped
                     + (IF result.action = "migrated" THEN 0 ELSE 1),
     errors   |-> IF result.action = "failed"
                  THEN Append(report.errors,
                              [username |-> userData.username,
                               error |-> result.error])
                  ELSE report.errors]

\* the for loop of migrateUsersToNewStructure, from entry i on
RECURSIVE MigrateLoop(_, _, _, _, _)
MigrateLoop(docs, ud, list, i, report) ==
    IF i > Len(list) THEN [report |-> report, docs |-> docs]
    ELSE LET result == migrateUser(docs, ud, list[i])
         IN  MigrateLoop(result.docs, ud, list, i + 1,
                [migrated |-> report.migrated
                                 + (IF result.action = "migrated" THEN 1 ELSE 0),
                 skipped  |-> report.skipped
                                 + (IF result.action = "migrated" THEN 0 ELSE 1),
                 errors   |-> IF result.action = "failed"
                              THEN Append(report.errors,
                                          [username |-> list[i].username,
                                           error |-> result.error])
                              ELSE report.errors])

EmptyReport == [migrated |-> 0, skipped |-> 0, errors |-> << >>]

\* migrateUsersToNewStructure(): [report, docs]
migrateUsersToNewStructure(docs, ud) ==
    IF ~HasLegacyUsers(ud)
    THEN [report |-> EmptyReport, docs |-> docs]
    ELSE MigrateLoop(docs, ud, ud.users, 1, EmptyReport)

\* getMigrationStatus()
getMigrationStatus(docs, ud) ==
    [newStructure    |-> countDocuments(docs, ud),
     legacyStructure |-> Len(LegacyUsers(ud))]

\* cleanupLegacyStructure(force): [ok, ud]; ok = FALSE when it throws.
\* updateOne({}, { $unset: { users: "" } }) acts on the first document of
\* the collection, the container when there is one.
cleanupLegacyStructure(docs, ud, force) ==
    LET status == getMigrationStatus(docs, ud)
    IN  IF ~force THEN [ok |-> FALSE, ud |-> ud]
        ELSE IF status.legacyStructure > 0 /\ status.newStructure = 0
        THEN [ok |-> FALSE, ud |-> ud]
        ELSE [ok |-> TRUE,
              ud |-> IF ud.exists
                     THEN [ud EXCEPT !.hasUsers = FALSE, !.users = << >>]
                     ELSE ud]

----------------------------------------------------------------------------
(* routes/user/userRegister.js: registerUser *)

MsgMissing == "Missing required fields"
MsgEmailFormat == "Invalid email format"
MsgPasswordFormat == "Password must be at least 8 characters long"
MsgInternal == "Internal server error"

\* err.message.includes("already exists")
IncludesAlreadyExists(errors) == errors = <<MsgExists>>

\* [status, errors, username, docs]
registerUser(docs, ud, desiredUsername, email, password, draws, t) ==
    LET gen == generateUniqueUsername(docs, ud, desiredUsername, draws, t)
        added == addUser(docs, ud, gen.username, email, bcryptHash(password))
        thrown == IF added.code = "invalid" THEN added.errors
                  ELSE IF added.code = "E11000" THEN <<MsgExists>>
                  ELSE <<MsgCreate>>
        Fail(status, errors) ==
            [status |-> status, errors |-> errors, username |-> << >>,
             docs |-> docs]
    IN  IF desiredUsername = << >> \/ email = << >> \/ password = << >>
        THEN Fail(400, <<MsgMissing>>)
        ELSE IF ~emailRegex(email) THEN Fail(400, <<MsgEmailFormat>>)
        ELSE IF ~passwordRegex(password) THEN Fail(400, <<MsgPasswordFormat>>)
        ELSE IF ~gen.ok THEN Fail(500, <<MsgSeed>>)
        ELSE IF added.code # "ok"
        THEN [Fail(IF IncludesAlreadyExists(thrown) THEN 409 ELSE 500, thrown)
                 EXCEPT !.docs = added.docs]
        ELSE [status |-> 201, errors |-> << >>,
              username |-> added.user.username, docs |-> added.docs]

\* The same handler, between its awaits.  [pc, status, errors, username]:
\* pc is the step that comes next, "done" when the response is sent.

\* up to the generated username
registerGenerate(docs, ud, desiredUsername, email, password, draws, t) ==
    LET gen == generateUniqueUsername(docs, ud, desiredUsername, draws, t)
        Reply(status, errors) ==
            [pc |-> "done", status |-> status, errors |-> errors,
             username |-> << >>]
    IN  IF desiredUsername = << >> \/ email = << >> \/ password = << >>
        THEN Reply(400, <<MsgMissing>>)
        ELSE IF ~emailRegex(email) THEN Reply(400, <<MsgEmailFormat>>)
        ELSE IF ~passwordRegex(password) THEN Reply(400, <<MsgPasswordFormat>>)
        ELSE IF ~gen.ok THEN Reply(500, <<MsgSeed>>)
        ELSE [pc |-> "validate", status |-> 0, errors |-> << >>,
              username |-> gen.username]

\* addUser, up to the validation of the user data
registerValidate(docs, ud, username, email, password) ==
    LET errors == validateUserData(docs, ud, username, email,
                                   bcryptHash(password))
    IN  IF errors # << >>
        THEN [pc |-> "done",
              status |-> IF IncludesAlreadyExists(errors) THEN 409 ELSE 500,
              errors |-> errors, username |-> << >>]
        ELSE [pc |-> "create", status |-> 0, errors |-> << >>,
              username |-> << >>]

\* addUser, from UserRepository.create on: [pc, status, errors, username,
\* docs]
registerCreate(docs, username, email, password) ==
    LET made == create(docs, [username |-> username, email |-> email,
                              password |-> bcryptHash(password),
                              isActivated |-> FALSE])
        thrown == IF made.code = "E11000" THEN <<MsgExists>> ELSE <<MsgCreate>>
    IN  IF made.code # "ok"
        THEN [pc |-> "done",
              status |-> IF IncludesAlreadyExists(thrown) THEN 409 ELSE 500,
              errors |-> thrown, username |-> << >>, docs |-> docs]
        ELSE [pc |-> "done", status |-> 201, errors |-> << >>,
              username |-> made.user.username, docs |-> made.docs]

----------------------------------------------------------------------------
(* routes/user/userLogin.js: loginUser *)

MsgInvalid == "Invalid email or password"
MsgLocked == "Account temporarily locked due to too many failed login attempts"
MsgNowLocked == "Account locked due to too many failed login attempts"

\* remainingAttempts = 4 - (updatedUser.loginAttempts || 0), not below 0
remainingAttempts(updatedUser) ==
    LET n == IF updatedUser.shape = "doc"
             THEN updatedUser.rec.loginAttempts ELSE 0
    IN  IF 4 - n > 0 THEN 4 - n ELSE 0

\* [status, errors, compared, token, remaining, user, docs]; remaining is
\* -1 when the response carries no remainingAttempts
loginUser(docs, ud, email, password, t) ==
    LET user == findUserForLogin(docs, ud, email)
        failedDocs == handleFailedLogin(docs, user, t)
        updatedUser == findUserForLogin(failedDocs, ud, email)
        Reply(status, errors, compared, token, newDocs) ==
            [status |-> status, errors |-> errors, compared |-> compared,
             token |-> token, user |-> user,
             remaining |-> IF status = 401 /\ compared
                           THEN remainingAttempts(updatedUser) ELSE -1,
             docs |-> newDocs]
    IN  IF email = << >> \/ password = << >>
        THEN Reply(400, <<MsgMissing>>, FALSE, FALSE, docs)
        ELSE IF user.shape = "none"
        THEN Reply(401, <<MsgInvalid>>, FALSE, FALSE, docs)
        ELSE IF isAccountLocked(user, t)
        THEN Reply(423, <<MsgLocked>>, FALSE, FALSE, docs)
        ELSE IF user.rec.password = << >>
        THEN Reply(500, <<MsgInternal>>, TRUE, FALSE, docs)
        ELSE IF ~bcryptCompare(password, user.rec.password)
        THEN IF isAccountLocked(updatedUser, t)
             THEN Reply(423, <<MsgNowLocked>>, TRUE, FALSE, failedDocs)
             ELSE Reply(401, <<MsgInvalid>>, TRUE, FALSE, failedDocs)
        ELSE Reply(200, << >>, TRUE, TRUE, handleSuccessfulLogin(docs, user))

----------------------------------------------------------------------------
(* Requests and initial legacy data *)

NameBob == <<"B","o","b","!">>
NameEve == <<"E","v","e">>
NameShort == <<"a","_">>
HandleBob == <<"b","o","b">>
HandleAmy == <<"A","m","y">>
HandleDan == <<"d","a","n">>
HandleZed == <<"z","e","d">>

EmailB == <<"b","@","x",".","i">>
EmailBUpper == <<"B","@","x",".","i">>
EmailC == <<"c","@","x",".","i">>
EmailCUpper == <<"C","@","x",".","i">>
EmailBad == <<"b","@","x">>

Pw1 == <<"p","a","s","s","w","0","r","d">>
Pw2 == <<"w","r","0","n","g","p","w","d">>
PwShort == <<"a","b","c","1">>

Request(desired, email, password) ==
    [desired |-> desired, email |-> email, password |-> password]

\* bodies of POST /auth/register: the well-formed ones, and one for each
\* request check that can fail
RegisterRequests ==
    {Request(d, e, Pw1) : d \in {NameBob, NameEve},
                          e \in {EmailB, EmailBUpper, EmailC}}
    \cup {Request(<< >>, EmailB, Pw1), Request(NameBob, EmailBad, Pw1),
          Request(NameBob, EmailB, PwShort), Request(NameShort, EmailB, Pw1)}

\* bodies of POST /auth/login
LoginRequests ==
    {Request(<< >>, e, p) : e \in {EmailB, EmailC}, p \in {Pw1, Pw2}}
    \cup {Request(<< >>, << >>, Pw1), Request(<< >>, EmailB, << >>),
          Request(<< >>, EmailBUpper, Pw2)}

\* values nanoid(4) may return (its alphabet is A-Za-z0-9_-)
Suffix1 == <<"x","1","y","2">>
Suffix2 == <<"Q","-","_","7">>
DrawSeqs ==
    {[k \in 1..maxAttempts |-> Suffix1],
     [k \in 1..maxAttempts |-> IF k = 1 THEN Suffix1 ELSE Suffix2]}

\* the draws are read only when the cleaned name is taken
DrawsFor(docs, ud, desired) ==
    IF isUsernameTaken(docs, ud, cleanUsername(desired))
    THEN DrawSeqs
    ELSE {[k \in 1..maxAttempts |-> Suffix1]}

Patches ==
    {[fields |-> {"username"}, username |-> HandleAmy, email |-> << >>,
      isActivated |-> FALSE],
     [fields |-> {"email", "isActivated"}, username |-> << >>,
      email |-> EmailCUpper, isActivated |-> TRUE]}

LegacyBob ==
    [username |-> HandleBob, email |-> EmailB,
     password |-> bcryptHash(Pw1), isActivated |-> TRUE]
LegacyAmy ==
    [username |-> HandleAmy, email |-> EmailCUpper,
     password |-> bcryptHash(Pw1), isActivated |-> FALSE]
LegacyDan ==
    [username |-> HandleDan, email |-> << >>,
     password |-> bcryptHash(Pw1), isActivated |-> FALSE]

\* an entry without an email field, and one whose username is too short
\* for the User schema
LegacyNed ==
    [username |-> <<"n","e","d">>, email |-> Undefined,
     password |-> bcryptHash(Pw1), isActivated |-> FALSE]
LegacyIvy ==
    [username |-> <<"i","v">>, email |-> <<"i","@","x",".","i">>,
     password |-> bcryptHash(Pw1), isActivated |-> FALSE]

Roster == <<LegacyDan, LegacyBob, LegacyAmy>>

\* the entries of Roster at the positions in S, in Roster's order
Pick(S) ==
    LET idx == SelectSeq([i \in DOMAIN Roster |-> i], LAMBDA i : i \in S)
    IN  [k \in DOMAIN idx |-> Roster[idx[k]]]

\* legacy lists the container may hold at start
LegacyLists ==
    {Pick(S) : S \in {T \in SUBSET DOMAIN Roster : Cardinality(T) <= MaxLegacy}}

TickSteps == {1, LOCK_TIME}

Handles(docs, ud) ==
    {d.username : d \in docs} \cup {LegacyUsers(ud)[i].username :
                                        i \in DOMAIN LegacyUsers(ud)}

NoCall ==
    [op |-> "none", status |-> 0, code |-> "", errors |-> << >>,
     desired |-> << >>, email |-> << >>, password |-> << >>,
     username |-> << >>, compared |-> FALSE, token |-> FALSE,
     remaining |-> -1, user |-> NotFound, force |-> FALSE,
     report |-> EmptyReport]

\* the handler calls that may be in progress at once
Procs == {1, 2}

\* no call is in progress
Idle == [p \in Procs |-> [pc |-> "idle"]]

NoContainer == [exists |-> FALSE, hasUsers |-> FALSE, users |-> << >>]
Container(list) == [exists |-> TRUE, hasUsers |-> TRUE, users |-> list]

----------------------------------------------------------------------------
(* The state machine: one action per handler call *)

Init ==
    /\ userDocs = {}
    /\ usersDoc \in {NoContainer} \cup {Container(l) : l \in LegacyLists}
    /\ now = 0
    /\ ticks = 0
    /\ last = NoCall
    /\ procs = Idle

\* time passes between handler calls
Tick ==
    /\ ticks < MaxTicks
    /\ \E step \in TickSteps : now' = now + step
    /\ ticks' = ticks + 1
    /\ UNCHANGED <<userDocs, usersDoc, last, procs>>

\* variant: the new account is also appended to the legacy list
RegisterUserLegacyWrite(req, draws) ==
    LET res == registerUser(userDocs, usersDoc, req.desired, req.email,
                            req.password, draws, now)
    IN  /\ userDocs' = res.docs
        /\ usersDoc' = IF res.status = 201 /\ usersDoc.exists
                       THEN [usersDoc EXCEPT !.users =
                               Append(@, [username |-> res.username,
                                          email |-> req.email,
                                          password |-> bcryptHash(req.password),
                                          isActivated |-> FALSE])]
                       ELSE usersDoc
        /\ last' = [NoCall EXCEPT !.op = "register", !.status = res.status,
                                  !.errors = res.errors,
                                  !.desired = req.desired,
                                  !.email = req.email,
                                  !.password = req.password,
                                  !.username = res.username]
        /\ UNCHANGED <<now, ticks, procs>>

\* POST /auth/register
RegisterUser(req, draws) ==
    LET res == registerUser(userDocs, usersDoc, req.desired, req.email,
                            req.password, draws, now)
    IN  /\ userDocs' = res.docs
        /\ last' = [NoCall EXCEPT !.op = "register", !.status = res.status,
                                  !.errors = res.errors,
                                  !.desired = req.desired,
                                  !.email = req.email,
                                  !.password = req.password,
                                  !.username = res.username]
        /\ UNCHANGED <<usersDoc, now, ticks, procs>>

\* POST /auth/login
LoginUser(req) ==
    LET res == loginUser(userDocs, usersDoc, req.email, req.password, now)
    IN  /\ userDocs' = res.docs
        /\ last' = [NoCall EXCEPT !.op = "login", !.status = res.status,
                                  !.errors = res.errors,
                                  !.email = req.email,
                                  !.password = req.password,
                                  !.compared = res.compared,
                                  !.token = res.token,
                                  !.remaining = res.remaining,
                                  !.user = res.user]
        /\ UNCHANGED <<usersDoc, now, ticks, procs>>

\* DELETE /api/users/:id (deleteUser -> UserService.deleteUser)
DeleteUser(username) ==
    LET res == deleteByUsername(userDocs, usersDoc, username)
    IN  /\ userDocs' = res.docs
        /\ usersDoc' = res.ud
        /\ last' = [NoCall EXCEPT !.op = "delete",
                                  !.status = IF res.user.shape = "none"
                                             THEN 404 ELSE 200,
                                  !.code = res.user.shape,
                                  !.user = res.user,
                                  !.username = username]
        /\ UNCHANGED <<now, ticks, procs>>

\* UserService.updateUser(username, updateData)
UpdateUser(username, patch) ==
    LET res == updateByUsername(userDocs, username, patch)
    IN  /\ userDocs' = res.docs
        /\ last' = [NoCall EXCEPT !.op = "update", !.code = res.code,
                                  !.username = username]
        /\ UNCHANGED <<usersDoc, now, ticks, procs>>

\* variant: the run removes the legacy list when it is done
MigrateUsersThenUnset ==
    LET res == migrateUsersToNewStructure(userDocs, usersDoc)
    IN  /\ userDocs' = res.docs
        /\ usersDoc' = [usersDoc EXCEPT !.hasUsers = FALSE, !.users = << >>]
        /\ last' = [NoCall EXCEPT !.op = "migrate", !.report = res.report]
        /\ UNCHANGED <<now, ticks, procs>>

\* UserService.migrateUsersToNewStructure()
MigrateUsers ==
    LET res == migrateUsersToNewStructure(userDocs, usersDoc)
    IN  /\ userDocs' = res.docs
        /\ last' = [NoCall EXCEPT !.op = "migrate", !.report = res.report]
        /\ UNCHANGED <<usersDoc, now, ticks, procs>>

\* UserMigration.cleanupLegacyStructure(force)
CleanupLegacy(force) ==
    LET res == cleanupLegacyStructure(userDocs, usersDoc, force)
    IN  /\ usersDoc' = res.ud
        /\ last' = [NoCall EXCEPT !.op = "cleanup", !.force = force,
                                  !.code = IF res.ok THEN "ok" ELSE "throw"]
        /\ UNCHANGED <<userDocs, now, ticks, procs>>

\* Account management.  LoginUser writes only loginAttempts and lockUntil
\* of one User document, and no action below reads them, so authentication
\* is followed separately, under SpecAuth.
Next ==
    \/ \E req \in RegisterRequests :
          \E draws \in DrawsFor(userDocs, usersDoc, req.desired) :
              RegisterUser(req, draws)
    \/ \E username \in Handles(userDocs, usersDoc) \cup {HandleZed} :
          DeleteUser(username)
    \/ \E username \in Handles(userDocs, usersDoc) \cup {HandleZed},
          patch \in Patches :
            UpdateUser(username, patch)
    \/ MigrateUsers
    \/ \E force \in BOOLEAN : CleanupLegacy(force)

Spec == Init /\ [][Next]_vars

\* Authentication over time, on one legacy account and one registered one.
AuthInit ==
    /\ userDocs = {}
    /\ usersDoc = Container(<<LegacyBob>>)
    /\ now = 0
    /\ ticks = 0
    /\ last = NoCall
    /\ procs = Idle

NextAuth ==
    \/ Tick
    \/ RegisterUser(Request(NameEve, EmailC, Pw1),
                    [k \in 1..maxAttempts |-> Suffix1])
    \/ \E req \in LoginRequests : LoginUser(req)
    \/ MigrateUsers

SpecAuth == AuthInit /\ [][NextAuth]_vars

\* Migration and deletion over legacy lists in every order, with entries
\* that migrate, entries that fail and entries that are skipped.
MigrateEntries == {LegacyBob, LegacyAmy, LegacyDan, LegacyNed, LegacyIvy}

MigrateLists ==
    {l \in UNION {[1..n -> MigrateEntries] : n \in 0..MaxMigrate} :
        \A i, j \in DOMAIN l : i # j => l[i] # l[j]}

MigrateInit ==
    /\ userDocs = {}
    /\ usersDoc \in {Container(l) : l \in MigrateLists}
    /\ now = 0
    /\ ticks = 0
    /\ last = NoCall
    /\ procs = Idle

NextMigrate ==
    \/ RegisterUser(Request(NameBob, EmailC, Pw1),
                    [k \in 1..maxAttempts |-> Suffix1])
    \/ \E username \in Handles(userDocs, usersDoc) \cup {HandleZed} :
          DeleteUser(username)
    \/ MigrateUsers
    \/ CleanupLegacy(TRUE)

SpecMigrate == MigrateInit /\ [][NextMigrate]_vars

\* Two POST /auth/register calls in progress at once.  A call gives way to
\* the other at its awaits: after the username is generated and after the
\* user data is validated.  The generator only reads, and no document is
\* removed while the calls run, so its reads are taken at one instant.
RaceRequests ==
    {Request(d, e, Pw1) : d \in {NameBob, NameEve},
                          e \in {EmailB, EmailBUpper, EmailC}}

\* a call that has received its request; username is the constant of that
\* name in the handler, the generated handle
Started(req) ==
    [pc |-> "generate", req |-> req, username |-> << >>, status |-> 0,
     errors |-> << >>]

RaceInit ==
    /\ userDocs = {}
    /\ usersDoc \in {NoContainer, Container(<<LegacyBob>>)}
    /\ now = 0
    /\ ticks = 0
    /\ last = NoCall
    /\ procs \in [Procs -> {Started(req) : req \in RaceRequests}]

RegisterGenerate(p) ==
    /\ procs[p].pc = "generate"
    /\ \E draws \in DrawsFor(userDocs, usersDoc, procs[p].req.desired) :
          LET res == registerGenerate(userDocs, usersDoc, procs[p].req.desired,
                                      procs[p].req.email,
                                      procs[p].req.password, draws, now)
          IN  procs' = [procs EXCEPT ![p] =
                          [@ EXCEPT !.pc = res.pc, !.status = res.status,
                                    !.errors = res.errors,
                                    !.username = res.username]]
    /\ UNCHANGED <<userDocs, usersDoc, now, ticks, last>>

RegisterValidate(p) ==
    /\ procs[p].pc = "validate"
    /\ LET res == registerValidate(userDocs, usersDoc, procs[p].username,
                                   procs[p].req.email, procs[p].req.password)
       IN  procs' = [procs EXCEPT ![p] =
                       [@ EXCEPT !.pc = res.pc, !.status = res.status,
                                 !.errors = res.errors]]
    /\ UNCHANGED <<userDocs, usersDoc, now, ticks, last>>

RegisterCreate(p) ==
    /\ procs[p].pc = "create"
    /\ LET res == registerCreate(userDocs, procs[p].username,
                                 procs[p].req.email, procs[p].req.password)
       IN  /\ userDocs' = res.docs
           /\ procs' = [procs EXCEPT ![p] =
                          [@ EXCEPT !.pc = res.pc, !.status = res.status,
                                    !.errors = res.errors]]
    /\ UNCHANGED <<usersDoc, now, ticks, last>>

NextRace ==
    \E p \in Procs :
        RegisterGenerate(p) \/ RegisterValidate(p) \/ RegisterCreate(p)

SpecRace == RaceInit /\ [][NextRace]_vars

\* Two migration runs in progress at once over the same container.  A run
\* gives way to the other at its awaits: after the container is read,
\* after the lookup of an entry and after its save.  Every awaited call
\* completes, so a run that can take a step does take it.
Pass(pc, users, i, report) ==
    [pc |-> pc, users |-> users, i |-> i, report |-> report]

\* the position after entry i of a run over users
AfterEntry(users, i) == IF i + 1 > Len(users) THEN "done" ELSE "lookup"

\* the legacy lists the two runs go over: entries that migrate, one the
\* schema refuses at the save and one without an email
RaceEntries == {LegacyBob, LegacyAmy, LegacyIvy, LegacyDan}

RaceLists == {l \in MigrateLists : Range(l) \subseteq RaceEntries}

MigrateRaceInit ==
    /\ userDocs = {}
    /\ usersDoc \in {NoContainer} \cup {Container(l) : l \in RaceLists}
    /\ now = 0
    /\ ticks = 0
    /\ last = NoCall
    /\ procs = [p \in Procs |-> Pass("read", << >>, 0, EmptyReport)]

PassRead(p) ==
    /\ procs[p].pc = "read"
    /\ procs' = [procs EXCEPT ![p] =
                    IF ~HasLegacyUsers(usersDoc)
                    THEN Pass("done", << >>, 0, EmptyReport)
                    ELSE Pass(AfterEntry(usersDoc.users, 0), usersDoc.users, 1,
                              EmptyReport)]
    /\ UNCHANGED <<userDocs, usersDoc, now, ticks, last>>

PassLookup(p) ==
    /\ procs[p].pc = "lookup"
    /\ LET userData == procs[p].users[procs[p].i]
           res == migrateUserLookup(userDocs, usersDoc, userData)
       IN  procs' = [procs EXCEPT ![p] =
                       IF res.action = "save"
                       THEN [@ EXCEPT !.pc = "save"]
                       ELSE Pass(AfterEntry(@.users, @.i), @.users, @.i + 1,
                                 Tally(@.report, userData, res))]
    /\ UNCHANGED <<userDocs, usersDoc, now, ticks, last>>

PassSave(p) ==
    /\ procs[p].pc = "save"
    /\ LET userData == procs[p].users[procs[p].i]
           res == migrateUserSave(userDocs, userData)
       IN  /\ userDocs' = res.docs
           /\ procs' = [procs EXCEPT ![p] =
                          Pass(AfterEntry(@.users, @.i), @.users, @.i + 1,
                               Tally(@.report, userData, res))]
    /\ UNCHANGED <<usersDoc, now, ticks, last>>

PassStep(p) == PassRead(p) \/ PassLookup(p) \/ PassSave(p)

NextMigrateRace == \E p \in Procs : PassStep(p)

SpecMigrateRace ==
    /\ MigrateRaceInit
    /\ [][NextMigrateRace]_vars
    /\ \A p \in Procs : WF_vars(PassStep(p))

\* A deleteByUsername call in progress beside another one, or beside a
\* migration run that has read the container already.  The call gives way
\* at its awaits: after User.findOneAndDelete, after the container is read
\* in deleteFromLegacyStructure, and after the list is written back.
Removal(pc, username, users, user) ==
    [pc |-> pc, username |-> username, users |-> users, user |-> user]

DeleteRaceInit ==
    /\ userDocs = {}
    /\ usersDoc \in {Container(l) : l \in RaceLists}
    /\ now = 0
    /\ ticks = 0
    /\ last = NoCall
    /\ \E h1, h2 \in Handles(userDocs, usersDoc) \cup {HandleZed} :
          procs \in {<<Removal("find", h1, << >>, NotFound),
                       Removal("find", h2, << >>, NotFound)>>,
                     <<Pass(AfterEntry(usersDoc.users, 0), usersDoc.users, 1,
                            EmptyReport),
                       Removal("find", h2, << >>, NotFound)>>}

\* User.findOneAndDelete({ username })
DeleteFind(p) ==
    /\ procs[p].pc = "find"
    /\ LET found == FindOneByUsername(userDocs, procs[p].username)
       IN  IF found # {}
           THEN LET doc == CHOOSE d \in found : TRUE
                IN  /\ userDocs' = userDocs \ {doc}
                    /\ procs' = [procs EXCEPT ![p] =
                                   [@ EXCEPT !.pc = "returned",
                                             !.user = Found("doc", doc)]]
           ELSE /\ userDocs' = userDocs
                /\ procs' = [procs EXCEPT ![p] = [@ EXCEPT !.pc = "list"]]
    /\ UNCHANGED <<usersDoc, now, ticks, last>>

\* deleteFromLegacyStructure up to its write: the container as read, the
\* entry found in it and the list with the entry spliced out
DeleteList(p) ==
    /\ procs[p].pc = "list"
    /\ LET res == deleteFromLegacyStructure(usersDoc, procs[p].username)
       IN  procs' = [procs EXCEPT ![p] =
                       IF res.user.shape = "none"
                       THEN [@ EXCEPT !.pc = "returned"]
                       ELSE [@ EXCEPT !.pc = "write", !.user = res.user,
                                      !.users = res.ud.users]]
    /\ UNCHANGED <<userDocs, usersDoc, now, ticks, last>>

\* updateOne({}, { $set: { users: usersDoc.users } }): the whole list
DeleteWrite(p) ==
    /\ procs[p].pc = "write"
    /\ usersDoc' = [usersDoc EXCEPT !.hasUsers = TRUE,
                                    !.users = procs[p].users]
    /\ procs' = [procs EXCEPT ![p] = [@ EXCEPT !.pc = "returned"]]
    /\ UNCHANGED <<userDocs, now, ticks, last>>

DeleteStep(p) == DeleteFind(p) \/ DeleteList(p) \/ DeleteWrite(p)

NextDeleteRace ==
    \E p \in Procs : DeleteStep(p) \/ PassLookup(p) \/ PassSave(p)

SpecDeleteRace == DeleteRaceInit /\ [][NextDeleteRace]_vars

\* POST /auth/login calls in progress at once on the account registered
\* with EmailC.  A call gives way at its awaits; the one that matters lies
\* between findUserForLogin and the update of the counters, where
\* bcrypt.compare is awaited: the update is composed from the document the
\* call has loaded and applied to the document as stored by then.
Attempt(pc, password, user, status) ==
    [pc |-> pc, password |-> password, user |-> user, status |-> status]

LoginRaceInit ==
    /\ userDocs = {}
    /\ usersDoc = Container(<<LegacyBob>>)
    /\ now = 0
    /\ ticks = 0
    /\ last = NoCall
    /\ procs = [p \in Procs |-> Attempt("idle", << >>, NotFound, 0)]

\* the request is received and the account looked up
LoginFind(p, password) ==
    /\ procs[p].pc = "idle"
    /\ LET user == findUserForLogin(userDocs, usersDoc, EmailC)
       IN  procs' = [procs EXCEPT ![p] =
                       IF user.shape = "none"
                       THEN Attempt("idle", password, user, 401)
                       ELSE IF isAccountLocked(user, now)
                       THEN Attempt("idle", password, user, 423)
                       ELSE Attempt("compare", password, user, 0)]
    /\ UNCHANGED <<userDocs, usersDoc, now, ticks, last>>

\* the document the store holds for the one a call has loaded
Stored(docs, user) ==
    IF user.shape = "doc" THEN FindOneByUsername(docs, user.rec.username)
    ELSE {}

\* bcrypt.compare has answered: the counters are updated and the reply sent
LoginCompare(p) ==
    /\ procs[p].pc = "compare"
    /\ LET user == procs[p].user
           stored == Stored(userDocs, user)
           matches == bcryptCompare(procs[p].password, user.rec.password)
           written == IF matches
                      THEN {resetLoginAttempts(d) : d \in stored}
                      ELSE {updateOne(d, updates(user.rec, now)) : d \in stored}
           docs == (userDocs \ stored) \cup written
           updatedUser == findUserForLogin(docs, usersDoc, EmailC)
       IN  /\ userDocs' = docs
           /\ procs' = [procs EXCEPT ![p] =
                          Attempt("idle", @.password, user,
                                  IF matches THEN 200
                                  ELSE IF isAccountLocked(updatedUser, now)
                                  THEN 423 ELSE 401)]
    /\ UNCHANGED <<usersDoc, now, ticks, last>>

NextLoginRace ==
    \/ Tick
    \/ RegisterUser(Request(NameEve, EmailC, Pw1),
                    [k \in 1..maxAttempts |-> Suffix1])
    \/ \E p \in Procs : \E password \in {Pw1, Pw2} : LoginFind(p, password)
    \/ \E p \in Procs : LoginCompare(p)

SpecLoginRace == LoginRaceInit /\ [][NextLoginRace]_vars

----------------------------------------------------------------------------
(* Properties.  Emails are identified without regard to letter case; a     *)
(* missing email identifies nothing.  The legacy entries are read straight *)
(* from the container.                                                     *)

SameEmail(stored, e) == stored # << >> /\ toLowerCase(stored) = toLowerCase(e)

LegacyHandles(ud) == {ud.users[i].username : i \in DOMAIN ud.users}

HandleHeld(docs, ud, h) ==
    (\E d \in docs : d.username = h) \/ h \in LegacyHandles(ud)

EmailHeld(docs, ud, e) ==
    \/ \E d \in docs : SameEmail(d.email, e)
    \/ \E i \in DOMAIN ud.users : SameEmail(ud.users[i].email, e)

\* the step is one call of the handler op: every call records itself in
\* last, and no time passes during a call
Call(op) == last'.op = op /\ now' = now

\* a register request that passes every check on its own fields
WellFormed(desired, email, password) ==
    /\ desired # << >>
    /\ emailRegex(email)
    /\ passwordRegex(password)
    /\ Len(cleanUsername(desired)) >= CleanMinLen

UniqueAmongDocuments ==
    \A d1, d2 \in userDocs :
        d1 # d2 => d1.username # d2.username /\ ~SameEmail(d1.email, d2.email)

UniqueAmongLegacy ==
    \A i, j \in DOMAIN usersDoc.users :
        i # j => /\ usersDoc.users[i].username # usersDoc.users[j].username
                 /\ ~SameEmail(usersDoc.users[i].email, usersDoc.users[j].email)

UniqueBetweenShapes ==
    \A d \in userDocs : \A i \in DOMAIN usersDoc.users :
        /\ d.username # usersDoc.users[i].username
        /\ ~SameEmail(usersDoc.users[i].email, d.email)

InBoth(docs, ud) == {d.username : d \in docs} \cap LegacyHandles(ud)

C3_RegisterExistingEmailFails ==
    [][(/\ Call("register")
        /\ WellFormed(last'.desired, last'.email, last'.password)
        /\ EmailHeld(userDocs, usersDoc, last'.email))
       => /\ last'.errors \in {<<MsgUsed>>, <<MsgExists>>}
          /\ userDocs' = userDocs]_vars

\* C4: a well-formed register whose handle and email are in neither shape
\* succeeds, and the lookup by the handle then returns a User document with
\* that handle and email whose password is the digest, not the plaintext.
C4_RegisterCreatesAccount ==
    [][(/\ Call("register")
        /\ WellFormed(last'.desired, last'.email, last'.password)
        /\ ~HandleHeld(userDocs, usersDoc, cleanUsername(last'.desired))
        /\ ~EmailHeld(userDocs, usersDoc, last'.email))
       => /\ last'.status = 201
          /\ last'.username = cleanUsername(last'.desired)
          /\ LET f == findByUsername(userDocs', usersDoc', last'.username)
             IN  /\ f.shape = "doc"
                 /\ f.rec.username = last'.username
                 /\ SameEmail(f.rec.email, last'.email)
                 /\ f.rec.password = BcryptPrefix \o last'.password
                 /\ f.rec.password # last'.password]_vars

\* a register has succeeded beside a legacy list, and the account it made
\* is found with the digest of the request's password
C4_Witness ==
    /\ last.op = "register" /\ last.status = 201
    /\ Len(usersDoc.users) >= 1
    /\ \E d \in userDocs : /\ d.username = last.username
                           /\ d.password = BcryptPrefix \o last.password

\* every legacy entry is a valid account, and none collides with another
\* entry or with a User document
MigrationClean(docs, ud) ==
    /\ \A i \in DOMAIN ud.users :
          /\ SchemaValid(NewUser(ud.users[i]))
          /\ \A d \in docs : /\ d.username # ud.users[i].username
                             /\ ~SameEmail(d.email, ud.users[i].email)
    /\ \A i, j \in DOMAIN ud.users :
          i # j => /\ ud.users[i].username # ud.users[j].username
                   /\ ~SameEmail(ud.users[i].email, ud.users[j].email)

Report(migrated, skipped) ==
    [migrated |-> migrated, skipped |-> skipped, errors |-> << >>]

\* C10: over a legacy list of N valid accounts with no prior conflict a
\* migration run reports migrated = N, skipped = 0; the run that follows it
\* reports migrated = 0, skipped = N and leaves the User documents as they
\* were.
C10_MigrateTwice ==
    [][Call("migrate")
       => /\ MigrationClean(userDocs, usersDoc)
                => last'.report = Report(Len(usersDoc.users), 0)
          /\ (/\ last.op = "migrate"
              /\ last.report = Report(Len(usersDoc.users), 0))
                => /\ last'.report = Report(0, Len(usersDoc.users))
                   /\ userDocs' = userDocs]_vars

\* a run over two entries, both already copied, has skipped both
C10_Witness ==
    /\ last.op = "migrate"
    /\ Len(usersDoc.users) >= 2
    /\ last.report = Report(0, Len(usersDoc.users))
    /\ userDocs = {NewUser(usersDoc.users[i]) : i \in DOMAIN usersDoc.users}

----------------------------------------------------------------------------
(* Authentication.  A login with email e addresses the User document whose *)
(* email is e up to letter case; the properties read that document before  *)
(* the call (d) and after it (the document of userDocs' with d's handle).  *)

Addressed(docs, e) == {d \in docs : SameEmail(d.email, e)}

After(d) == {a \in userDocs' : a.username = d.username}

WrongPassword(d, password) == d.password # BcryptPrefix \o password

\* a login call that presents a password
LoginCall == Call("login") /\ last'.password # << >>

\* C5: a login on a Locked account (lockUntil in the future) is refused as
\* locked whatever the password, before any credential check, with no
\* token and no change to the account.
C5_LockedIsRefused ==
    [][LoginCall
       => \A d \in Addressed(userDocs, last'.email) :
             (d.lockUntil # NoLock /\ d.lockUntil > now)
             => /\ last'.status = 423
                /\ last'.errors = <<MsgLocked>>
                /\ ~last'.compared
                /\ ~last'.token
                /\ userDocs' = userDocs]_vars

\* a locked account has been refused although the password was the right
\* one
C5_Witness ==
    /\ last.op = "login" /\ last.status = 423 /\ ~last.compared
    /\ last.user.shape = "doc"
    /\ last.user.rec.lockUntil > now
    /\ last.user.rec.password = BcryptPrefix \o last.password

\* what a counted failure leaves of document d at time t
CountedFailure(d, t) ==
    \E a \in After(d) :
        /\ a.loginAttempts = d.loginAttempts + 1
        /\ d.loginAttempts + 1 >= MAX_LOGIN_ATTEMPTS
              => a.lockUntil = t + LOCK_TIME
        /\ d.loginAttempts + 1 < MAX_LOGIN_ATTEMPTS
              => a.lockUntil = d.lockUntil

\* C6 as stated: a failed verification on an Open account (lockUntil
\* absent or in the past) adds one to loginAttempts; when the new count
\* reaches 4 lockUntil becomes now + 5 minutes, and below 4 lockUntil is
\* left as it was.
C6_FailureOnOpenCounts ==
    [][LoginCall
       => \A d \in Addressed(userDocs, last'.email) :
             (/\ d.lockUntil = NoLock \/ d.lockUntil < now
              /\ WrongPassword(d, last'.password))
             => CountedFailure(d, now)]_vars

\* C6 amended: the same, for an Open account whose lockUntil is absent.
C6_FailureWithoutLockCounts ==
    [][LoginCall
       => \A d \in Addressed(userDocs, last'.email) :
             (/\ d.lockUntil = NoLock
              /\ WrongPassword(d, last'.password))
             => CountedFailure(d, now)]_vars

\* the fourth failure in a row has locked an account that had no lock
C6_Witness ==
    /\ last.op = "login" /\ last.status = 423
    /\ last.errors = <<MsgNowLocked>>
    /\ last.user.shape = "doc"
    /\ last.user.rec.lockUntil = NoLock
    /\ last.user.rec.loginAttempts = MAX_LOGIN_ATTEMPTS - 1
    /\ \E d \in userDocs : /\ d.username = last.user.rec.username
                           /\ d.loginAttempts = MAX_LOGIN_ATTEMPTS
                           /\ d.lockUntil = now + LOCK_TIME

\* C7: an account whose lockUntil has elapsed is treated as Open: the login
\* goes on to the credential check, and a failed one leaves loginAttempts
\* at exactly 1 and lockUntil absent.
C7_ElapsedLockRestartsCount ==
    [][LoginCall
       => \A d \in Addressed(userDocs, last'.email) :
             (d.lockUntil # NoLock /\ d.lockUntil < now)
             => /\ last'.compared
                /\ WrongPassword(d, last'.password)
                      => /\ last'.status = 401
                         /\ \E a \in After(d) : /\ a.loginAttempts = 1
                                                /\ a.lockUntil = NoLock]_vars

\* a failed login has found a lock that had elapsed on an account with four
\* failures, and has left one failure and no lock
C7_Witness ==
    /\ last.op = "login" /\ last.status = 401 /\ last.compared
    /\ last.user.shape = "doc"
    /\ last.user.rec.lockUntil # NoLock
    /\ last.user.rec.lockUntil < now
    /\ last.user.rec.loginAttempts >= MAX_LOGIN_ATTEMPTS
    /\ \E d \in userDocs : /\ d.username = last.user.rec.username
                           /\ d.loginAttempts = 1
                           /\ d.lockUntil = NoLock

\* C8: a successful verification on an account that is not locked leaves
\* loginAttempts = 0 and lockUntil absent.
C8_SuccessResets ==
    [][LoginCall
       => \A d \in Addressed(userDocs, last'.email) :
             (/\ ~(d.lockUntil # NoLock /\ d.lockUntil > now)
              /\ ~WrongPassword(d, last'.password))
             => /\ last'.status = 200
                /\ last'.token
                /\ \E a \in After(d) : /\ a.loginAttempts = 0
                                       /\ a.lockUntil = NoLock]_vars

\* a login has succeeded on an account that had failures and an elapsed
\* lock recorded
C8_Witness ==
    /\ last.op = "login" /\ last.status = 200
    /\ last.user.shape = "doc"
    /\ last.user.rec.loginAttempts > 0
    /\ last.user.rec.lockUntil # NoLock
    /\ \E d \in userDocs : /\ d.username = last.user.rec.username
                           /\ d.loginAttempts = 0
                           /\ d.lockUntil = NoLock

\* the legacy entries that no User document shares a handle or email with
LegacyOnly(docs, ud) ==
    {i \in DOMAIN ud.users :
        \A d \in docs : /\ d.username # ud.users[i].username
                        /\ ~SameEmail(ud.users[i].email, d.email)}

\* C9: a login on an account that exists only in the legacy list is never
\* refused as locked and changes neither the legacy list nor the User
\* documents; with the entry's own email it always reaches the credential
\* check, where a wrong password is answered with all 4 attempts remaining
\* and the right one succeeds.
C9_LegacyNeverLocks ==
    [][LoginCall
       => \A i \in LegacyOnly(userDocs, usersDoc) :
             SameEmail(usersDoc.users[i].email, last'.email)
             => /\ last'.status # 423
                /\ userDocs' = userDocs
                /\ usersDoc' = usersDoc
                /\ usersDoc.users[i].email = last'.email
                      => /\ last'.compared
                         /\ IF WrongPassword(usersDoc.users[i], last'.password)
                            THEN /\ last'.status = 401
                                 /\ last'.remaining = MAX_LOGIN_ATTEMPTS
                            ELSE last'.status = 200]_vars

\* a wrong password on a legacy-only account has been answered with all
\* attempts remaining
C9_Witness ==
    /\ last.op = "login" /\ last.status = 401 /\ last.compared
    /\ last.user.shape = "legacy"
    /\ last.remaining = MAX_LOGIN_ATTEMPTS
    /\ \E i \in LegacyOnly(userDocs, usersDoc) :
          usersDoc.users[i] = last.user.rec

----------------------------------------------------------------------------
(* Migration, cleanup and deletion *)

MissingFields(u) == Falsy(u.username) \/ Falsy(u.email)

\* no User document stands in the way of entry u
NoDocumentFor(docs, u) ==
    \A d \in docs : d.username # u.username /\ ~SameEmail(d.email, u.email)

\* no earlier entry of the list, once migrated, stands in the way of list[i]
NoEarlierEntryFor(list, i) ==
    \A j \in 1..(i - 1) :
        /\ list[j].username # list[i].username
        /\ ~SameEmail(list[j].email, list[i].email)

Recorded(errors, u) == \E k \in DOMAIN errors : errors[k].username = u.username

\* C11: a migration run ends with a report in which every entry that fails
\* (a handle or email missing, or a save the User schema refuses) is in the
\* error list under its handle, and every valid entry with no conflict has
\* been migrated, wherever the failing entries sit in the list.
C11_FailuresRecordedOthersMigrated ==
    [][Call("migrate")
       => \A i \in DOMAIN usersDoc.users :
             LET u == usersDoc.users[i]
             IN  /\ (MissingFields(u) /\ NoDocumentFor(userDocs, u))
                       => Recorded(last'.report.errors, u)
                 /\ (/\ ~MissingFields(u)
                     /\ ~SchemaValid(NewUser(u))
                     /\ NoDocumentFor(userDocs, u))
                       => Recorded(last'.report.errors, u)
                 /\ (/\ ~MissingFields(u)
                     /\ SchemaValid(NewUser(u))
                     /\ NoDocumentFor(userDocs, u)
                     /\ NoEarlierEntryFor(usersDoc.users, i))
                       => NewUser(u) \in userDocs']_vars

\* C12: a migration run leaves the legacy container as it was, entry for
\* entry and in the same order, whatever happened to each entry.
C12_MigrateKeepsLegacy ==
    [][Call("migrate") => usersDoc' = usersDoc]_vars

\* a run over three entries has migrated one, skipped one and recorded an
\* error, and the three are still in the list
C12_Witness ==
    /\ last.op = "migrate"
    /\ last.report.migrated >= 1
    /\ last.report.errors # << >>
    /\ last.report.skipped > Len(last.report.errors)
    /\ Len(usersDoc.users) = 3

\* C13: over a legacy list with entries, cleanup removes the list only when
\* called with force = true while User documents exist; in every other case
\* it throws and leaves the container as it was.
C13_CleanupGuarded ==
    [][(Call("cleanup") /\ Len(usersDoc.users) > 0)
       => /\ last'.code = "ok" => (last'.force /\ userDocs # {})
          /\ last'.code # "ok" => usersDoc' = usersDoc
          /\ usersDoc' # usersDoc => last'.code = "ok"]_vars

\* the list without its i-th entry
RemoveAt(list, i) ==
    [k \in 1..(Len(list) - 1) |-> IF k < i THEN list[k] ELSE list[k + 1]]

\* C14: deleting a handle that only the legacy list holds takes exactly
\* that entry out of the list, the others staying in order, leaves the User
\* documents unchanged and returns the removed entry.
C14_DeleteLegacyEntry ==
    [][(/\ Call("delete")
        /\ last'.username \in LegacyHandles(usersDoc)
        /\ \A d \in userDocs : d.username # last'.username)
       => \E i \in DOMAIN usersDoc.users :
             /\ usersDoc.users[i].username = last'.username
             /\ usersDoc' = [usersDoc EXCEPT !.users = RemoveAt(@, i)]
             /\ userDocs' = userDocs
             /\ last'.status = 200
             /\ last'.user = [shape |-> "legacy", rec |-> usersDoc.users[i]]]_vars

\* a legacy entry has been deleted and returned while two others and a User
\* document stay
C14_Witness ==
    /\ last.op = "delete" /\ last.status = 200
    /\ last.user.shape = "legacy"
    /\ last.user.rec.username = last.username
    /\ last.username \notin LegacyHandles(usersDoc)
    /\ Len(usersDoc.users) >= 2
    /\ userDocs # {}

\* C15: deleting a handle that neither shape holds returns no record and
\* leaves the User documents and the legacy container unchanged.
C15_DeleteUnknownHandle ==
    [][(/\ Call("delete")
        /\ ~HandleHeld(userDocs, usersDoc, last'.username))
       => /\ last'.status = 404
          /\ last'.user.shape = "none"
          /\ userDocs' = userDocs
          /\ usersDoc' = usersDoc]_vars

\* an unknown handle has been answered 404 while both shapes hold accounts
C15_Witness ==
    /\ last.op = "delete" /\ last.status = 404
    /\ ~HandleHeld(userDocs, usersDoc, last.username)
    /\ userDocs # {}
    /\ Len(usersDoc.users) >= 2

----------------------------------------------------------------------------
(* The username generator, called in the current state with each desired   *)
(* name and each sequence of values nanoid(4) may return.                  *)

GeneratorNames == {NameBob, NameEve}

Generated(desired, draws) ==
    generateUniqueUsername(userDocs, usersDoc, desired, draws, now)

\* C16: the handle the generator returns is held by no record of either
\* shape at the time of the call, on every path.
C16_GeneratedHandleIsFree ==
    \A desired \in GeneratorNames, draws \in DrawSeqs :
        Generated(desired, draws).ok
        => ~HandleHeld(userDocs, usersDoc, Generated(desired, draws).username)

AlnumLower(s) == \A i \in DOMAIN s : s[i] \in Lowers \cup Digits

\* the candidates of draws that are free, by position
FreeCandidates(c, draws) ==
    {k \in DOMAIN draws :
        ~HandleHeld(userDocs, usersDoc, c \o <<"_">> \o draws[k])}

\* C17: with c the canonical form of the desired name (at least 3
\* characters), the generator returns c when c is free; when c is taken, c,
\* an underscore and the first free candidate suffix, 4 characters of
\* [a-z0-9]; and after 10 colliding candidates c, an underscore and 6
\* decimal digits.
C17_GeneratorResult ==
    \A desired \in GeneratorNames, draws \in DrawSeqs :
        LET c == cleanUsername(desired)
            g == Generated(desired, draws)
            free == FreeCandidates(c, draws)
        IN  Len(c) >= 3
            => /\ g.ok
               /\ IF ~HandleHeld(userDocs, usersDoc, c) THEN g.username = c
                  ELSE IF free # {}
                  THEN LET k == CHOOSE k \in free : \A j \in free : k <= j
                       IN  /\ g.username = c \o <<"_">> \o draws[k]
                           /\ Len(draws[k]) = 4
                           /\ AlnumLower(draws[k])
                  ELSE /\ Len(g.username) = Len(c) + 7
                       /\ SubSeq(g.username, 1, Len(c) + 1) = c \o <<"_">>
                       /\ \A i \in (Len(c) + 2)..(Len(c) + 7) :
                             g.username[i] \in Digits

\* C18 as stated: one call of the generator makes at most 10 existence
\* checks.
C18_AtMostTenChecks ==
    \A desired \in GeneratorNames, draws \in DrawSeqs :
        existenceChecks(userDocs, usersDoc, desired, draws) <= 10

\* C18 amended: one call of the generator makes at most 11 existence
\* checks, one for the canonical form and at most 10 for suffixed
\* candidates, and then returns.
C18_AtMostElevenChecks ==
    \A desired \in GeneratorNames, draws \in DrawSeqs :
        /\ existenceChecks(userDocs, usersDoc, desired, draws) <= 11
        /\ Generated(desired, draws).ok

\* a call in this state makes 11 checks: the canonical form and ten
\* candidates are all taken
C18_Witness ==
    \E desired \in GeneratorNames, draws \in DrawSeqs :
        /\ existenceChecks(userDocs, usersDoc, desired, draws) = 11
        /\ FreeCandidates(cleanUsername(desired), draws) = {}

HandleFormat(h) ==
    /\ Len(h) >= 3 /\ Len(h) <= 30
    /\ \A i \in DOMAIN h : h[i] \in Lowers \cup Digits \cup {"_"}
    /\ h[1] # "_"
    /\ h[Len(h)] # "_"

\* C19: every handle register stores has the handle format: 3 to 30
\* characters of [a-z0-9_], with no underscore first or last.
C19_StoredHandleFormat ==
    [][(Call("register") /\ last'.status = 201)
       => /\ \E d \in userDocs' \ userDocs : d.username = last'.username
          /\ HandleFormat(last'.username)]_vars

\* C20: no operation changes the handle of an existing account: an update
\* leaves the set of handles of the User documents as it was.
C20_HandleNeverChanges ==
    [][Call("update")
       => {d.username : d \in userDocs'} = {d.username : d \in userDocs}]_vars

----------------------------------------------------------------------------
(* Lookups, evaluated in the current state for each probed email and       *)
(* handle.                                                                 *)

ProbeEmails == {EmailB, EmailBUpper, EmailC, EmailCUpper}

ProbeHandles == Handles(userDocs, usersDoc) \cup {HandleZed}

\* C21: findByEmail(e) returns an account whose email equals e up to letter
\* case whenever one is stored, in the User documents or in the legacy
\* list, and nothing when none is.
C21_FindByEmailIgnoresCase ==
    \A e \in ProbeEmails :
        LET f == findByEmail(userDocs, usersDoc, e)
        IN  IF EmailHeld(userDocs, usersDoc, e)
            THEN f.shape # "none" /\ SameEmail(f.rec.email, e)
            ELSE f = NotFound

\* the legacy entries with handle h, by position
LegacyMatches(h) ==
    {i \in DOMAIN usersDoc.users : usersDoc.users[i].username = h}

\* C22: findByHandle(h) returns the User document with handle h when there
\* is one, whether or not the legacy list holds h too; the first legacy
\* entry with handle h when no User document has it; nothing when neither
\* has it; and what it returns is one stored record.
C22_FindByHandleTiers ==
    \A h \in ProbeHandles :
        LET f == findByUsername(userDocs, usersDoc, h)
        IN  IF \E d \in userDocs : d.username = h
            THEN f.shape = "doc" /\ f.rec \in userDocs /\ f.rec.username = h
            ELSE IF LegacyMatches(h) # {}
            THEN /\ f.shape = "legacy"
                 /\ f.rec = usersDoc.users[CHOOSE i \in LegacyMatches(h) :
                                              \A j \in LegacyMatches(h) : i <= j]
            ELSE f = NotFound

\* a handle is held by a User document and by a legacy entry that differ,
\* and the lookup returns the document
C22_Witness ==
    \E h \in InBoth(userDocs, usersDoc) :
        /\ findByUsername(userDocs, usersDoc, h).shape = "doc"
        /\ \A i \in LegacyMatches(h) :
              usersDoc.users[i].email
                  # findByUsername(userDocs, usersDoc, h).rec.email

\* C23: findAll returns exactly the User documents whenever there is one,
\* and exactly the legacy list, in order, when there is none; never both.
C23_FindAllOneTier ==
    LET all == findAll(userDocs, usersDoc)
    IN  IF userDocs # {}
        THEN all.docs = userDocs /\ ~all.container /\ all.legacy = << >>
        ELSE all.docs = {} /\ ~all.container /\ all.legacy = usersDoc.users

\* C24: in every state countAll is the number of User documents plus the
\* length of the legacy list, migrated entries counted twice.
C24_CountAllIsSum ==
    countAll(userDocs, usersDoc) = Cardinality(userDocs) + Len(usersDoc.users)

----------------------------------------------------------------------------
(* Frame conditions of register and update *)

\* C26: no register call, successful or failed, changes the legacy
\* container: a new account is written to the User documents only.
C26_RegisterKeepsLegacy ==
    [][Call("register")
       => /\ usersDoc' = usersDoc
          /\ (last'.status = 201
              => \E d \in userDocs' \ userDocs : d.username = last'.username)
          /\ (last'.status # 201 => userDocs' = userDocs)]_vars

\* a register has succeeded on the suffix path, the legacy list holding its
\* canonical handle
C26_Witness ==
    /\ last.op = "register" /\ last.status = 201
    /\ cleanUsername(last.desired) \in LegacyHandles(usersDoc)
    /\ last.username # cleanUsername(last.desired)

\* C27: updateByHandle(h, patch) for a handle h held by a legacy entry and
\* by no User document returns null, raises no error, and leaves the legacy
\* list and the User documents as they were.
C27_UpdateLegacyOnlyIsNoop ==
    [][(/\ Call("update")
        /\ last'.username \in LegacyHandles(usersDoc)
        /\ ~\E d \in userDocs : d.username = last'.username)
       => /\ last'.code = "null"
          /\ userDocs' = userDocs
          /\ usersDoc' = usersDoc]_vars

\* an update of a legacy-only handle has returned null beside User documents
C27_Witness ==
    /\ last.op = "update" /\ last.code = "null"
    /\ last.username \in LegacyHandles(usersDoc)
    /\ ~\E d \in userDocs : d.username = last.username
    /\ userDocs # {}

\* C30: a register call that fails, on validation or as a duplicate, has
\* written nothing: the User documents and the legacy container after the
\* call are those before it.
C30_FailedRegisterWritesNothing ==
    [][(Call("register") /\ last'.status # 201)
       => userDocs' = userDocs /\ usersDoc' = usersDoc]_vars

\* a register has been refused as a duplicate by the validation of addUser
C30_Witness ==
    /\ last.op = "register" /\ last.errors = <<MsgUsed>>
    /\ EmailHeld(userDocs, usersDoc, last.email)

----------------------------------------------------------------------------
(* Calls in progress at once *)

\* the two calls have the same email, or have generated the same handle
Conflicting(p, q) ==
    \/ SameEmail(procs[p].req.email, procs[q].req.email)
    \/ /\ procs[p].username # << >>
       /\ procs[p].username = procs[q].username

\* C25: a register call refused because its handle or email is held, by
\* the check before the write (in the User documents or in the legacy
\* list) or by the unique index at the write, gets the response of the
\* duplicate error, 409, on each of the paths.
C25_DuplicateIsOneKind ==
    \A p \in Procs :
        (procs[p].pc = "done" /\ procs[p].errors \in {<<MsgUsed>>, <<MsgExists>>})
        => procs[p].status = 409

\* both calls have answered, they conflict, and p has succeeded
Settled(p, q) ==
    /\ p # q
    /\ procs[p].pc = "done" /\ procs[q].pc = "done"
    /\ Conflicting(p, q)
    /\ procs[p].status = 201

AtMostOneSucceeds ==
    \A p, q \in Procs : Settled(p, q) => procs[q].status # 201

LoserRefusedByCreate ==
    \A p, q \in Procs :
        Settled(p, q)
        => procs[q].status = 409 /\ procs[q].errors = <<MsgExists>>

\* C28: of two register calls in progress at once with the same email or
\* the same generated handle, at most one succeeds, the other is refused
\* with the duplicate error raised by the create step, and the User
\* documents never hold a handle or an email twice.
C28_ConcurrentRegister ==
    UniqueAmongDocuments /\ AtMostOneSucceeds /\ LoserRefusedByCreate

\* a legacy entry the store accepts: handle and email present and valid
\* for the User schema
Migratable(u) ==
    /\ ~Falsy(u.username) /\ ~Falsy(u.email)
    /\ SchemaValid(NewUser(u))

BothDone == \A p \in Procs : procs[p].pc = "done"

\* each migratable legacy entry has exactly one User document, made by
\* exactly one of the runs, and there is no other document
OneRecordPerAccount ==
    /\ \A i \in DOMAIN usersDoc.users :
          Migratable(usersDoc.users[i])
          => Cardinality({d \in userDocs :
                             /\ d.username = usersDoc.users[i].username
                             /\ SameEmail(d.email, usersDoc.users[i].email)}) = 1
    /\ Cardinality(userDocs)
          = Cardinality({i \in DOMAIN usersDoc.users :
                            Migratable(usersDoc.users[i])})
    /\ procs[1].report.migrated + procs[2].report.migrated
          = Cardinality(userDocs)

\* each run has gone through the whole list
WholeList ==
    \A p \in Procs :
        procs[p].report.migrated + procs[p].report.skipped
            = Len(usersDoc.users)

\* C29: with two migration runs in progress at once over the same legacy
\* list, in every interleaving no two User documents ever share a handle
\* or an email, both runs finish, each having gone through the whole list,
\* and at the end each migratable legacy account has exactly one User
\* document.
C29_ConcurrentMigration ==
    /\ [](UniqueAmongDocuments
          /\ (BothDone => OneRecordPerAccount /\ WholeList))
    /\ <>BothDone

\* both runs have finished after a late collision: one run's save of an
\* entry was refused by the unique index because the other run had saved
\* the same entry after the first one's lookup
C29_Witness ==
    /\ BothDone
    /\ Cardinality(userDocs) >= 2
    /\ \E p \in Procs : \E k \in DOMAIN procs[p].report.errors :
          procs[p].report.errors[k].error = "E11000"

----------------------------------------------------------------------------
(* Authentication: what the caller observes, and the lock over time *)

\* what the caller of POST /auth/login sees of a reply: the status, the
\* error message and the remainingAttempts field (-1 when there is none)
Response(reply) ==
    [status |-> reply.status, errors |-> reply.errors,
     remaining |-> reply.remaining]

\* an email no account has
EmailUnknown == <<"z","@","x",".","i">>

\* C31: a login with a wrong password for an existing account is answered
\* exactly as the same login for an email no account has, whatever the
\* number of attempts before it.
C31_WrongPasswordLooksUnknown ==
    [][(/\ LoginCall
        /\ last'.user.shape # "none"
        /\ WrongPassword(last'.user.rec, last'.password))
       => Response(last')
            = Response(loginUser(userDocs, usersDoc, EmailUnknown,
                                 last'.password, now))]_vars

\* C37: in every state reached by logins made one after the other, with
\* any time between them, loginAttempts of every User document is within
\* 0..4, also after a login made at the instant now = lockUntil.
C37_AttemptsWithinBounds ==
    \A d \in userDocs :
        d.loginAttempts >= 0 /\ d.loginAttempts <= MAX_LOGIN_ATTEMPTS

\* C39: a lock is never permanent: once now is past lockUntil of a locked
\* account, a login with the right password succeeds, issues a token and
\* leaves loginAttempts = 0 and lockUntil absent, however many failures
\* came before the lock.
C39_ElapsedLockAdmitsOwner ==
    [][LoginCall
       => \A d \in Addressed(userDocs, last'.email) :
             (/\ d.lockUntil # NoLock
              /\ now > d.lockUntil
              /\ ~WrongPassword(d, last'.password))
             => /\ last'.status = 200
                /\ last'.token
                /\ After(d) = {[d EXCEPT !.loginAttempts = 0,
                                         !.lockUntil = NoLock]}]_vars

\* the owner has logged in after the lock that four failures had set had
\* elapsed
C39_Witness ==
    /\ last.op = "login" /\ last.status = 200 /\ last.token
    /\ last.user.shape = "doc"
    /\ last.user.rec.loginAttempts >= MAX_LOGIN_ATTEMPTS
    /\ last.user.rec.lockUntil # NoLock
    /\ now > last.user.rec.lockUntil
    /\ [last.user.rec EXCEPT !.loginAttempts = 0, !.lockUntil = NoLock]
          \in userDocs

----------------------------------------------------------------------------
(* What a migration run does with each entry *)

\* the documents the step has added that stand for entry u
MadeFor(u) ==
    {d \in userDocs' \ userDocs :
        d.username = u.username \/ SameEmail(d.email, u.email)}

\* the document entry u is carried over to
CarriedOver(u) ==
    [username |-> u.username, email |-> toLowerCase(u.email),
     password |-> u.password, isActivated |-> u.isActivated,
     loginAttempts |-> 0, lockUntil |-> NoLock]

C40_ReportAccounts ==
    [][Call("migrate")
       => /\ last'.report.migrated + last'.report.skipped
                = Len(LegacyUsers(usersDoc))
          /\ Len(last'.report.errors) <= last'.report.skipped
          /\ userDocs \subseteq userDocs'
          /\ Cardinality(userDocs' \ userDocs) = last'.report.migrated]_vars

\* a run over three entries beside an earlier document: one carried over,
\* one skipped for a match, one failed
C40_Witness ==
    /\ last.op = "migrate"
    /\ last.report.migrated = 1
    /\ Len(last.report.errors) = 1
    /\ last.report.skipped = 2
    /\ Cardinality(userDocs) = 2

----------------------------------------------------------------------------
(* Deleting an account and cleaning up the legacy list *)

\* C33: once deleteByUsername(h) has returned the record it removed,
\* findByUsername(h) finds nothing, also when the account had been migrated
\* and its legacy entry is still in the list.  Stated for the state the
\* delete leaves, the first of the states the claim speaks of.
C33_DeletedStaysGone ==
    [][(Call("delete") /\ last'.status = 200)
          => findByUsername(userDocs', usersDoc', last'.username).shape
                = "none"]_vars

\* C38: a cleanup that succeeds discards no account: every entry of the
\* legacy list with a handle, as the list stood before
\* cleanupLegacyStructure(true) succeeded, is found by findByUsername
\* afterwards.
C38_CleanupKeepsAccounts ==
    [][(Call("cleanup") /\ last'.code = "ok")
          => \A i \in DOMAIN LegacyUsers(usersDoc) :
                LET u == LegacyUsers(usersDoc)[i]
                IN  ~Falsy(u.username)
                       => findByUsername(userDocs', usersDoc',
                                         u.username).shape # "none"]_vars

----------------------------------------------------------------------------
(* Calls in progress at once: deletes, a delete beside a migration run *)

\* process p is a deleteByUsername call that has returned the record it
\* removed from the legacy list
ReturnedLegacy(p) ==
    /\ procs[p].pc = "returned"
    /\ procs[p].user.shape = "legacy"

\* C34: deleteByUsername(h) for a legacy account runs beside a migration
\* run that has read the legacy list already; once the run is done and the
\* delete has returned the record it removed, no account with handle h is
\* left, as User document or as legacy entry.
C34_DeletedBesideMigration ==
    (/\ procs[1].pc = "done"
     /\ ReturnedLegacy(2))
        => ~HandleHeld(userDocs, usersDoc, procs[2].username)

\* C35: two deleteByUsername calls on distinct handles that only the legacy
\* list holds run at once; in every interleaving in which both return the
\* record they removed, the legacy list holds neither handle at the end.
C35_BothDeleted ==
    (/\ ReturnedLegacy(1)
     /\ ReturnedLegacy(2)
     /\ procs[1].username # procs[2].username)
        => /\ procs[1].username \notin LegacyHandles(usersDoc)
           /\ procs[2].username \notin LegacyHandles(usersDoc)

\* C36: under every interleaving of failed authentication attempts made at
\* once on one User document, whenever the stored loginAttempts is 4 or
\* more the stored lockUntil is set.
C36_CountedOutIsLocked ==
    \A d \in userDocs :
        d.loginAttempts >= MAX_LOGIN_ATTEMPTS => d.lockUntil # NoLock

====
